---- MODULE Spec2Model ----
(***************************************************************************)
(* Model of grammers' obfuscated transport                                 *)
(* (lib/grammers-mtproto/src/transport/obfuscated.rs) and of the salt /    *)
(* request layer that the reproduce example                                *)
(* (lib/grammers-client/examples/reproduce.rs) drives.                     *)
(*                                                                         *)
(* Bytes are records [v, ks]: v is the plaintext value 0..255 and ks the   *)
(* set of AES-256-CTR keystream bytes XORed onto it.  A keystream byte is  *)
(* named by <<key, counter block, offset in block>>; XORing the same       *)
(* keystream byte twice cancels.  This is the usual ideal-cipher reading   *)
(* of a stream cipher: two keystream bytes are equal exactly when key,     *)
(* counter block and offset are equal.                                     *)
(*                                                                         *)
(* Source offsets are 0-based and half open (init[56..60]); sequences here *)
(* are 1-based, so offset i is element i + 1.                              *)
(***************************************************************************)
EXTENDS Integers, Sequences, FiniteSets, TLC

VARIABLES
    st,           \* "gen": inside generate_keys; "live": decorator usable; "panicked"
    caller,       \* which operation is running generate_keys: "new" or "reset"
    inner,        \* Obfuscated::inner, the wrapped transport
    init,         \* generate_keys' local `init` while the rejection loop runs
    head,         \* Obfuscated::head, None or Some(64 bytes)
    rx_cipher,    \* Obfuscated::rx_cipher
    tx_cipher,    \* Obfuscated::tx_cipher
    out,          \* the buffer after the last pack
    rxbuf,        \* the buffer after the last deobfuscate
    unp,          \* what the last unpack returned
    ret,          \* how the last call ended
    lastOp,       \* the last operation that completed
    gen_block,    \* history: the random block the last generate_keys accepted
    gen_head,     \* history: the header the last generate_keys returned
    draws,        \* history: getrandom calls of the current/last generate_keys
    packs,        \* history: pack calls since the last new/reset
    tx_before,    \* history: tx_cipher position when the last pack started
    head_before,  \* history: head when the last pack started
    framed,       \* history: what inner.pack produced in the last pack
    payload,      \* history: the payload given to the last pack
    wire,         \* history: all pack outputs since the last new/reset
    sent,         \* history: all payloads packed since the last new/reset
    rcvd,         \* history: all bytes given to deobfuscate since the last new/reset
    deobf,        \* history: all bytes deobfuscate gave back since the last new/reset
    unp_in,       \* history: the buffer given to the last unpack
    inner_calls,  \* history: the calls the running/last operation made on inner
    dirty_reset,  \* history: the last reset found the header sent and both cursors moved
    salts,        \* SaltStore: the salts held
    clock,        \* the local clock
    expired_at,   \* history: the `now` of the last expire_before
    reqs,         \* request id -> where the call stands
    lastSalt,     \* history: the last SaltStore operation, its operands and result
    table,        \* RequestDispatcher: correlation id -> in-flight entry
    outcome,      \* correlation id -> what the caller of that request has been told
    invalidated,  \* salt identifiers the server has declared invalid
    refresh,      \* a "request fresh salts" control message is scheduled
    dlast,        \* history: the last event the dispatcher handled
    lock,         \* the writer lock: 0 or the caller holding it
    wpc,          \* caller -> where it stands in its pack + write
    wbuf,         \* caller -> the pack output it has not written yet
    stream        \* the bytes written to the socket, in order

ovars == <<st, caller, inner, init, head, rx_cipher, tx_cipher, out, rxbuf, unp,
           ret, lastOp, gen_block, gen_head, draws, packs, tx_before,
           head_before, framed, payload, wire, sent, rcvd, deobf, unp_in,
           inner_calls, dirty_reset>>
svars == <<salts, clock, expired_at, reqs, lastSalt>>
dvars == <<table, outcome, invalidated, refresh, dlast>>
wvars == <<lock, wpc, wbuf, stream>>
vars  == <<ovars, svars, dvars, wvars>>

----------------------------------------------------------------------------
(* Bounds of the model *)

\* pack is explored while at most this many framed bytes went out since new/reset
MaxStream == 5
\* deobfuscate is explored while at most this many bytes came in since new/reset
MaxRx == 3
\* the getrandom counter saturates here
MaxDraws == 2
\* validity windows lie in 0..MaxTime; the clock runs to MaxTime + 1
MaxTime == 2
\* the number of calls the client makes concurrently
MaxReqs == 2
\* the number of correlation ids the dispatcher sees
MaxCids == 2
\* the number of callers packing and writing concurrently
MaxCallers == 2

----------------------------------------------------------------------------
(* Bytes, slices *)

B(v) == [v |-> v, ks |-> {}]

\* s[a..b] of the source: offsets a (inclusive) to b (exclusive)
Slice(s, a, b) == SubSeq(s, a + 1, b)

Vals(s) == [i \in 1..Len(s) |-> s[i].v]

Plain(s) == \A i \in 1..Len(s) : s[i].ks = {}

RECURSIVE Rev(_)
Rev(s) == IF s = <<>> THEN <<>> ELSE Append(Rev(Tail(s)), Head(s))

None == <<>>

HEADER_LEN == 64

Zero64 == [i \in 1..HEADER_LEN |-> B(0)]

FORBIDDEN_FIRST_INTS ==
    << <<68, 65, 69, 72>>,      \* 0x44 0x41 0x45 0x48
       <<84, 83, 79, 80>>,      \* 0x54 0x53 0x4f 0x50
       <<32, 84, 69, 71>>,      \* 0x20 0x54 0x45 0x47
       <<73, 84, 80, 79>>,      \* 0x49 0x54 0x50 0x4f
       <<2, 1, 3, 22>>,         \* 0x02 0x01 0x03 0x16
       <<221, 221, 221, 221>>,  \* 0xdd x 4
       <<238, 238, 238, 238>>,  \* 0xee x 4
       <<80, 79, 83, 84>>,      \* 0x50 0x4f 0x53 0x54
       <<71, 69, 84, 32>> >>    \* 0x47 0x45 0x54 0x20

RESERVED_FIRST_BYTE == 239      \* 0xef

----------------------------------------------------------------------------
(* AES-256-CTR (crates aes, ctr): Ctr128BE keeps a 128-bit big-endian      *)
(* counter that starts at the IV and is incremented once per 16-byte block *)

BLOCK == 16

RECURSIVE AddBE(_, _)
AddBE(s, n) ==
    IF s = <<>> \/ n = 0 THEN s
    ELSE LET l   == Len(s)
             sum == s[l] + n
         IN  Append(AddBE(SubSeq(s, 1, l - 1), sum \div 256), sum % 256)

\* Ctr128BE::new(key, iv)
NewCipher(key, iv) == [key |-> key, iv |-> iv, pos |-> 0]

NullCipher == [key |-> <<>>, iv |-> <<>>, pos |-> 0]

\* the keystream byte of cipher c at stream position p
KeystreamByte(c, p) == <<c.key, AddBE(c.iv, p \div BLOCK), p % BLOCK>>

Xor(b, k) == [b EXCEPT !.ks = IF k \in @ THEN @ \ {k} ELSE @ \cup {k}]

\* StreamCipher::apply_keystream: XOR in place, advance the position
ApplyKeystream(c, buf) ==
    [buf    |-> [i \in 1..Len(buf) |-> Xor(buf[i], KeystreamByte(c, c.pos + i - 1))],
     cipher |-> [c EXCEPT !.pos = @ + Len(buf)]]

----------------------------------------------------------------------------
(* What getrandom may write into `init`: a few blocks that the loop accepts *)
(* and one block for every way the loop rejects                             *)

Fill(seed) == [i \in 1..HEADER_LEN |-> B((seed + 7 * i) % 256)]

WithFirst(blk, f) == [i \in 1..HEADER_LEN |-> IF i <= 4 THEN B(f[i]) ELSE blk[i]]

ZeroMid(blk) == [i \in 1..HEADER_LEN |-> IF i \in 5..8 THEN B(0) ELSE blk[i]]

\* byte j equals byte 63 - j for every offset j
Mirror(seed) ==
    [i \in 1..HEADER_LEN |->
        B((seed + 7 * (IF 2 * i <= HEADER_LEN THEN i ELSE HEADER_LEN + 1 - i)) % 256)]

AcceptableBlocks ==
    { Fill(17),
      WithFirst(Fill(90), <<68, 65, 69, 73>>),   \* one byte off "DAEH"
      Mirror(33) }

RejectableBlocks ==
    { WithFirst(Fill(17), FORBIDDEN_FIRST_INTS[k]) : k \in 1..Len(FORBIDDEN_FIRST_INTS) }
        \cup { WithFirst(Fill(17), <<RESERVED_FIRST_BYTE, 1, 2, 3>>),
               ZeroMid(Fill(17)),
               Zero64 }

RandomBlocks == AcceptableBlocks \cup RejectableBlocks

----------------------------------------------------------------------------
(* The wrapped transport (trait Transport; its implementations are not in   *)
(* the files at hand): a tagged framing, the untagged `Full`, or another    *)
(* Obfuscated                                                               *)

Inners ==
    { [kind |-> "tagged", tag |-> <<1, 2, 3, 4>>],
      [kind |-> "tagged", tag |-> <<238, 238, 238, 238>>],
      [kind |-> "untagged", tag |-> <<>>],
      [kind |-> "obfuscated", tag |-> <<>>] }

\* Transport::obfuscated_tag of the inner transport: Some(tag), or a panic
InnerTagPanics(inr) == inr.kind # "tagged"

\* the largest payload length the inner framing accepts on unpack
MaxFrame == 3

\* inner.pack: a one-byte length, then the payload
InnerPack(p) == <<B(Len(p))>> \o p

\* inner.unpack on a buffer of deobfuscated bytes
InnerUnpack(buf) ==
    IF Len(buf) < 1 THEN [kind |-> "need_more", from |-> 0, to |-> 0]
    ELSE IF buf[1].ks # {} \/ buf[1].v > MaxFrame
         THEN [kind |-> "error", from |-> 0, to |-> 0]
    ELSE IF Len(buf) < 1 + buf[1].v
         THEN [kind |-> "need_more", from |-> 0, to |-> 0]
    ELSE [kind |-> "ok", from |-> 1, to |-> 1 + buf[1].v]

Payloads == { <<B(5)>>, <<B(1), B(2)>> }

RxChunks == { <<B(10)>>, <<B(20), B(30)>> }

UnpackInputs == { <<B(1)>>, <<B(1), B(5)>>, <<B(9), B(9)>> }

----------------------------------------------------------------------------
(* Obfuscated::generate_keys *)

\* as Rejected, without the deny-list test
Rejected_noDenyList(blk) ==
    \/ Slice(blk, 4, 8) = [i \in 1..4 |-> B(0)]
    \/ blk[1] = B(RESERVED_FIRST_BYTE)

\* as Rejected, without the test of bytes 4..8
Rejected_noZeroCheck(blk) ==
    \/ blk[1] = B(RESERVED_FIRST_BYTE)
    \/ \E k \in 1..Len(FORBIDDEN_FIRST_INTS) :
          Vals(Slice(blk, 0, 4)) = FORBIDDEN_FIRST_INTS[k]

\* the condition of the while loop
Rejected(blk) ==
    \/ Slice(blk, 4, 8) = [i \in 1..4 |-> B(0)]
    \/ blk[1] = B(RESERVED_FIRST_BYTE)
    \/ \E k \in 1..Len(FORBIDDEN_FIRST_INTS) :
          Vals(Slice(blk, 0, 4)) = FORBIDDEN_FIRST_INTS[k]

\* as GenerateKeys, with the keystream applied to init[56..64] alone
GenerateKeys_encryptTail(blk, tag) ==
    LET tagged    == Slice(blk, 0, 56) \o [i \in 1..4 |-> B(tag[i])] \o Slice(blk, 60, 64)
        init_rev  == Rev(tagged)
        rx        == NewCipher(Vals(Slice(init_rev, 8, 40)), Vals(Slice(init_rev, 40, 56)))
        tx        == NewCipher(Vals(Slice(tagged, 8, 40)), Vals(Slice(tagged, 40, 56)))
        encrypted == ApplyKeystream(tx, Slice(tagged, 56, 64))
    IN  [init      |-> Slice(tagged, 0, 56) \o encrypted.buf,
         rx_cipher |-> rx,
         tx_cipher |-> encrypted.cipher]

\* as GenerateKeys, without the tag written into init[56..60]
GenerateKeys_noTag(blk, tag) ==
    LET init_rev  == Rev(blk)
        rx        == NewCipher(Vals(Slice(init_rev, 8, 40)), Vals(Slice(init_rev, 40, 56)))
        tx        == NewCipher(Vals(Slice(blk, 8, 40)), Vals(Slice(blk, 40, 56)))
        encrypted == ApplyKeystream(tx, blk)
    IN  [init      |-> Slice(blk, 0, 56) \o Slice(encrypted.buf, 56, 64),
         rx_cipher |-> rx,
         tx_cipher |-> encrypted.cipher]

\* as GenerateKeys, with the receive cipher keyed from init instead of init_rev
GenerateKeys_rxNotReversed(blk, tag) ==
    LET tagged    == Slice(blk, 0, 56) \o [i \in 1..4 |-> B(tag[i])] \o Slice(blk, 60, 64)
        rx        == NewCipher(Vals(Slice(tagged, 8, 40)), Vals(Slice(tagged, 40, 56)))
        tx        == NewCipher(Vals(Slice(tagged, 8, 40)), Vals(Slice(tagged, 40, 56)))
        encrypted == ApplyKeystream(tx, tagged)
    IN  [init      |-> Slice(tagged, 0, 56) \o Slice(encrypted.buf, 56, 64),
         rx_cipher |-> rx,
         tx_cipher |-> encrypted.cipher]

\* as GenerateKeys, encrypting with a copy of the transmit cipher, so that the
\* cipher handed back still stands at keystream offset 0
GenerateKeys_txNotAdvanced(blk, tag) ==
    LET tagged    == Slice(blk, 0, 56) \o [i \in 1..4 |-> B(tag[i])] \o Slice(blk, 60, 64)
        init_rev  == Rev(tagged)
        rx        == NewCipher(Vals(Slice(init_rev, 8, 40)), Vals(Slice(init_rev, 40, 56)))
        tx        == NewCipher(Vals(Slice(tagged, 8, 40)), Vals(Slice(tagged, 40, 56)))
        encrypted == ApplyKeystream(tx, tagged)
    IN  [init      |-> Slice(tagged, 0, 56) \o Slice(encrypted.buf, 56, 64),
         rx_cipher |-> rx,
         tx_cipher |-> tx]

\* the code after the loop, for an accepted block and the inner transport's tag
GenerateKeys(blk, tag) ==
    LET tagged    == Slice(blk, 0, 56) \o [i \in 1..4 |-> B(tag[i])] \o Slice(blk, 60, 64)
        init_rev  == Rev(tagged)
        rx        == NewCipher(Vals(Slice(init_rev, 8, 40)), Vals(Slice(init_rev, 40, 56)))
        tx        == NewCipher(Vals(Slice(tagged, 8, 40)), Vals(Slice(tagged, 40, 56)))
        encrypted == ApplyKeystream(tx, tagged)
    IN  [init      |-> Slice(tagged, 0, 56) \o Slice(encrypted.buf, 56, 64),
         rx_cipher |-> rx,
         tx_cipher |-> encrypted.cipher]

----------------------------------------------------------------------------
(* impl Transport for Obfuscated *)

\* as PackOp, reading head without take(): the header stays pending
PackOp_keepHead(h, tx, p) ==
    LET fr  == InnerPack(p)
        enc == ApplyKeystream(tx, fr)
    IN  [buffer    |-> h \o enc.buf,
         head      |-> h,
         tx_cipher |-> enc.cipher]

\* as PackOp, with the header prepended before the keystream is applied
PackOp_headerFirst(h, tx, p) ==
    LET fr  == InnerPack(p)
        enc == ApplyKeystream(tx, h \o fr)
    IN  [buffer    |-> enc.buf,
         head      |-> None,
         tx_cipher |-> enc.cipher]

\* pack, on (head, tx_cipher) and the buffer holding the payload
PackOp(h, tx, p) ==
    LET fr  == InnerPack(p)
        enc == ApplyKeystream(tx, fr)
    IN  [buffer    |-> h \o enc.buf,        \* head.take(), extend_front
         head      |-> None,
         tx_cipher |-> enc.cipher]

\* as DeobfuscateOp, on a copy of the receive cipher: the cursor stays put
DeobfuscateOp_cursorKept(rx, buf) ==
    [buf |-> ApplyKeystream(rx, buf).buf, cipher |-> rx]

\* deobfuscate
DeobfuscateOp(rx, buf) == ApplyKeystream(rx, buf)

Min(a, b) == IF a < b THEN a ELSE b

----------------------------------------------------------------------------
(* The decorator as a state machine.  Every method takes &mut self, so calls *)
(* never overlap; generate_keys is split at its loop, one getrandom a step   *)

SaltIdle ==
    /\ salts = {}
    /\ clock = 0
    /\ expired_at = 0
    /\ reqs = <<>>
    /\ lastSalt = [op |-> "none"]

Cids == 1..MaxCids

\* no in-flight entry for a correlation id
Absent == [state |-> "absent", salt |-> 0]

\* the dispatcher has accepted no call
DispatchIdle ==
    /\ table = [i \in Cids |-> Absent]
    /\ outcome = [i \in Cids |-> "idle"]
    /\ invalidated = {}
    /\ refresh = FALSE
    /\ dlast = [op |-> "none", id |-> 0]

Callers == 1..MaxCallers

\* no caller is packing or writing
WriterIdle ==
    /\ lock = 0
    /\ wpc = [c \in Callers |-> "idle"]
    /\ wbuf = [c \in Callers |-> <<>>]
    /\ stream = <<>>

\* Obfuscated::new(inner) has entered generate_keys: `let mut init = [0; 64]`
Init ==
    /\ st = "gen"
    /\ caller = "new"
    /\ inner \in Inners
    /\ init = Zero64
    /\ head = None
    /\ rx_cipher = NullCipher
    /\ tx_cipher = NullCipher
    /\ out = <<>>
    /\ rxbuf = <<>>
    /\ unp = [kind |-> "none", from |-> 0, to |-> 0]
    /\ ret = "running"
    /\ lastOp = "none"
    /\ gen_block = <<>>
    /\ gen_head = <<>>
    /\ draws = 0
    /\ packs = 0
    /\ tx_before = 0
    /\ head_before = None
    /\ framed = <<>>
    /\ payload = <<>>
    /\ wire = <<>>
    /\ sent = <<>>
    /\ rcvd = <<>>
    /\ deobf = <<>>
    /\ unp_in = <<>>
    /\ inner_calls = <<>>
    /\ dirty_reset = FALSE
    /\ SaltIdle
    /\ DispatchIdle
    /\ WriterIdle

\* one turn of the while loop: the condition holds, getrandom refills init
GetRandom ==
    /\ st = "gen"
    /\ Rejected(init)
    /\ \E blk \in RandomBlocks : init' = blk
    /\ draws' = Min(draws + 1, MaxDraws)
    /\ UNCHANGED <<st, caller, inner, head, rx_cipher, tx_cipher, out, rxbuf, unp,
                   ret, lastOp, gen_block, gen_head, packs, tx_before,
                   head_before, framed, payload, wire, sent>>
    /\ UNCHANGED <<rcvd, deobf, unp_in, inner_calls, dirty_reset>>
    /\ UNCHANGED <<svars, dvars, wvars>>

\* as FinishKeys, with reset leaving rx_cipher as it was
FinishKeys_resetKeepsRx ==
    /\ st = "gen"
    /\ ~Rejected(init)
    /\ lastOp' = caller
    /\ IF InnerTagPanics(inner)
       THEN /\ st' = "panicked"
            /\ ret' = "panic"
            /\ UNCHANGED <<head, rx_cipher, tx_cipher, gen_block, gen_head, packs,
                           wire, sent>>
       ELSE LET k == GenerateKeys(init, inner.tag)
            IN  /\ st' = "live"
                /\ ret' = IF caller = "new" THEN "decorator" ELSE "unit"
                /\ head' = k.init
                /\ rx_cipher' = IF caller = "new" THEN k.rx_cipher ELSE rx_cipher
                /\ tx_cipher' = k.tx_cipher
                /\ gen_block' = init
                /\ gen_head' = k.init
                /\ packs' = 0
                /\ wire' = <<>>
                /\ sent' = <<>>
    /\ UNCHANGED <<caller, inner, init, out, rxbuf, unp, draws, tx_before,
                   head_before, framed, payload>>
    /\ inner_calls' = Append(inner_calls, "obfuscated_tag")
    /\ UNCHANGED <<rcvd, deobf, unp_in, dirty_reset>>
    /\ UNCHANGED <<svars, dvars, wvars>>

\* the loop ends; inner.obfuscated_tag() panics or the keys are derived and
\* new / reset stores them
FinishKeys ==
    /\ st = "gen"
    /\ ~Rejected(init)
    /\ lastOp' = caller
    /\ IF InnerTagPanics(inner)
       THEN /\ st' = "panicked"
            /\ ret' = "panic"
            /\ UNCHANGED <<head, rx_cipher, tx_cipher, gen_block, gen_head, packs,
                           wire, sent>>
       ELSE LET k == GenerateKeys(init, inner.tag)
            IN  /\ st' = "live"
                /\ ret' = IF caller = "new" THEN "decorator" ELSE "unit"
                /\ head' = k.init
                /\ rx_cipher' = k.rx_cipher
                /\ tx_cipher' = k.tx_cipher
                /\ gen_block' = init
                /\ gen_head' = k.init
                /\ packs' = 0
                /\ wire' = <<>>
                /\ sent' = <<>>
    /\ UNCHANGED <<caller, inner, init, out, rxbuf, unp, draws, tx_before,
                   head_before, framed, payload>>
    /\ inner_calls' = Append(inner_calls, "obfuscated_tag")
    /\ UNCHANGED <<rcvd, deobf, unp_in, dirty_reset>>
    /\ UNCHANGED <<svars, dvars, wvars>>

PackCall(p) ==
    /\ st = "live"
    /\ tx_cipher.pos + Len(InnerPack(p)) <= HEADER_LEN + MaxStream
    /\ LET r == PackOp(head, tx_cipher, p)
       IN  /\ out' = r.buffer
           /\ head' = r.head
           /\ tx_cipher' = r.tx_cipher
           /\ wire' = wire \o r.buffer
    /\ ret' = "unit"
    /\ lastOp' = "pack"
    /\ packs' = packs + 1
    /\ tx_before' = tx_cipher.pos
    /\ head_before' = head
    /\ framed' = InnerPack(p)
    /\ payload' = p
    /\ sent' = Append(sent, p)
    /\ UNCHANGED <<st, caller, inner, init, rx_cipher, rxbuf, unp, gen_block,
                   gen_head, draws>>
    /\ inner_calls' = <<"pack">>
    /\ UNCHANGED <<rcvd, deobf, unp_in, dirty_reset>>

\* pack called on a decorator with one owner
Pack(p) ==
    /\ PackCall(p)
    /\ UNCHANGED <<svars, dvars, wvars>>

\* as Unpack, running the receive keystream over the buffer before inner.unpack
Unpack_deobfuscating(buf) ==
    /\ st = "live"
    /\ unp' = InnerUnpack(DeobfuscateOp(rx_cipher, buf).buf)
    /\ rx_cipher' = DeobfuscateOp(rx_cipher, buf).cipher
    /\ ret' = "result"
    /\ lastOp' = "unpack"
    /\ UNCHANGED <<st, caller, inner, init, head, tx_cipher, out, rxbuf,
                   gen_block, gen_head, draws, packs, tx_before, head_before,
                   framed, payload, wire, sent>>
    /\ unp_in' = buf
    /\ inner_calls' = <<"unpack">>
    /\ UNCHANGED <<rcvd, deobf, dirty_reset>>
    /\ UNCHANGED <<svars, dvars, wvars>>

Unpack(buf) ==
    /\ st = "live"
    /\ unp' = InnerUnpack(buf)
    /\ ret' = "result"
    /\ lastOp' = "unpack"
    /\ UNCHANGED <<st, caller, inner, init, head, rx_cipher, tx_cipher, out, rxbuf,
                   gen_block, gen_head, draws, packs, tx_before, head_before,
                   framed, payload, wire, sent>>
    /\ unp_in' = buf
    /\ inner_calls' = <<"unpack">>
    /\ UNCHANGED <<rcvd, deobf, dirty_reset>>
    /\ UNCHANGED <<svars, dvars, wvars>>

\* reset: inner.reset(), then generate_keys is entered; the buffers of earlier
\* calls are the callers' and are gone by now
Reset ==
    /\ st = "live"
    /\ st' = "gen"
    /\ caller' = "reset"
    /\ init' = Zero64
    /\ draws' = 0
    /\ ret' = "running"
    /\ out' = <<>>
    /\ rxbuf' = <<>>
    /\ unp' = [kind |-> "none", from |-> 0, to |-> 0]
    /\ tx_before' = 0
    /\ head_before' = None
    /\ framed' = <<>>
    /\ payload' = <<>>
    /\ wire' = <<>>
    /\ sent' = <<>>
    /\ packs' = 0
    /\ UNCHANGED <<inner, head, rx_cipher, tx_cipher, lastOp, gen_block, gen_head>>
    /\ rcvd' = <<>>
    /\ deobf' = <<>>
    /\ unp_in' = <<>>
    /\ inner_calls' = <<"reset">>
    /\ dirty_reset' = (head = None /\ rx_cipher.pos > 0 /\ tx_cipher.pos > HEADER_LEN)
    /\ UNCHANGED <<svars, dvars, wvars>>

\* as ObfuscatedTag, handing out the inner transport's tag
ObfuscatedTag_returnsTag ==
    /\ st = "live"
    /\ ret' = "tag"
    /\ lastOp' = "obfuscated_tag"
    /\ UNCHANGED <<st, caller, inner, init, head, rx_cipher, tx_cipher, out, rxbuf,
                   unp, gen_block, gen_head, draws, packs, tx_before, head_before,
                   framed, payload, wire, sent>>
    /\ inner_calls' = <<>>
    /\ UNCHANGED <<rcvd, deobf, unp_in, dirty_reset>>
    /\ UNCHANGED <<svars, dvars, wvars>>

ObfuscatedTag ==
    /\ st = "live"
    /\ st' = "panicked"
    /\ ret' = "panic"
    /\ lastOp' = "obfuscated_tag"
    /\ UNCHANGED <<caller, inner, init, head, rx_cipher, tx_cipher, out, rxbuf, unp,
                   gen_block, gen_head, draws, packs, tx_before, head_before,
                   framed, payload, wire, sent>>
    /\ inner_calls' = <<>>
    /\ UNCHANGED <<rcvd, deobf, unp_in, dirty_reset>>
    /\ UNCHANGED <<svars, dvars, wvars>>

Deobfuscate(buf) ==
    /\ st = "live"
    /\ rx_cipher.pos + Len(buf) <= MaxRx
    /\ LET r == DeobfuscateOp(rx_cipher, buf)
       IN  /\ rxbuf' = r.buf
           /\ rx_cipher' = r.cipher
    /\ ret' = "unit"
    /\ lastOp' = "deobfuscate"
    /\ UNCHANGED <<st, caller, inner, init, head, tx_cipher, out, unp, gen_block,
                   gen_head, draws, packs, tx_before, head_before, framed,
                   payload, wire, sent>>
    /\ rcvd' = rcvd \o buf
    /\ deobf' = deobf \o DeobfuscateOp(rx_cipher, buf).buf
    /\ inner_calls' = <<>>
    /\ UNCHANGED <<unp_in, dirty_reset>>
    /\ UNCHANGED <<svars, dvars, wvars>>

Next ==
    \/ GetRandom
    \/ FinishKeys
    \/ \E p \in Payloads : Pack(p)
    \/ \E buf \in UnpackInputs : Unpack(buf)
    \/ Reset
    \/ ObfuscatedTag
    \/ \E buf \in RxChunks : Deobfuscate(buf)

Spec == Init /\ [][Next]_vars

----------------------------------------------------------------------------
(* Properties of the decorator *)

TagBytes == [i \in 1..4 |-> B(inner.tag[i])]

\* the accepted block with the tag written over init[56..60]
TaggedBlock == Slice(gen_block, 0, 56) \o TagBytes \o Slice(gen_block, 60, 64)

\* the cipher a party sets up from bytes 8..56 of a header, as the remote end does
CipherOf(hdr) == NewCipher(Vals(Slice(hdr, 8, 40)), Vals(Slice(hdr, 40, 56)))

\* the number of bytes inner.pack produced for the payloads q
RECURSIVE FramedTotal(_)
FramedTotal(q) == IF q = <<>> THEN 0 ELSE Len(InnerPack(Head(q))) + FramedTotal(Tail(q))

\* C1: the header is prepended to the first pack after new and to the first
\* pack after each reset, and to no other pack
C1_HeaderOnFirstPackOnly ==
    (st = "live" /\ packs >= 1) =>
        /\ packs = 1 => /\ Len(out) = HEADER_LEN + Len(framed)
                        /\ Slice(out, 0, HEADER_LEN) = gen_head
        /\ packs > 1 => Len(out) = Len(framed)
        /\ Len(wire) = HEADER_LEN + FramedTotal(sent)

\* a second pack after a reset went out without a header
C1_Witness ==
    /\ st = "live"
    /\ caller = "reset"
    /\ packs = 2
    /\ Len(out) = Len(framed)

\* C3: a header returned by generate_keys never starts with a deny-listed
\* sequence or with 0xef, never has bytes 4..8 all zero, and has bytes 0..8 of
\* the accepted random block
C3_HeaderAvoidsSignatures ==
    st = "live" =>
        /\ Vals(Slice(gen_head, 0, 4)) \notin
              { <<68, 65, 69, 72>>, <<84, 83, 79, 80>>, <<32, 84, 69, 71>>,
                <<73, 84, 80, 79>>, <<2, 1, 3, 22>>, <<221, 221, 221, 221>>,
                <<238, 238, 238, 238>>, <<80, 79, 83, 84>>, <<71, 69, 84, 32>> }
        /\ gen_head[1].v # 239
        /\ \E i \in 5..8 : gen_head[i].v # 0
        /\ Slice(gen_head, 0, 8) = Slice(gen_block, 0, 8)
        /\ Plain(Slice(gen_head, 0, 8))
        /\ head # None => head = gen_head

\* generate_keys, run by reset, returned after redrawing at least once
C3_Witness ==
    /\ st = "live"
    /\ caller = "reset"
    /\ draws >= 2
    /\ head = gen_head

\* C4: obfuscated_tag on the decorator always panics, and new / reset with a
\* nested or untagged inner transport panics: nothing is returned
C4_ContractViolationsPanic ==
    /\ lastOp = "obfuscated_tag" => (st = "panicked" /\ ret = "panic")
    /\ inner.kind # "tagged" =>
          /\ st \in {"gen", "panicked"}
          /\ ret \in {"running", "panic"}
          /\ head = None /\ gen_head = <<>>
          /\ lastOp \in {"none", "new"}
          /\ lastOp = "new" => (st = "panicked" /\ ret = "panic")

\* obfuscated_tag was called on a decorator built over a tagged transport
C4_Witness ==
    /\ lastOp = "obfuscated_tag"
    /\ st = "panicked"
    /\ inner.kind = "tagged"

\* C2 as stated: bytes 56..60 of the first pack output after new are the inner
\* transport's tag itself, and the output has at least 64 + framed bytes
C2_TagInClear ==
    (st = "live" /\ caller = "new" /\ packs = 1) =>
        /\ Slice(out, 56, 60) = TagBytes
        /\ Len(out) >= HEADER_LEN + Len(framed)

\* C2 amended: bytes 56..60 of the first pack output after new are the inner
\* transport's tag under the transmit keystream bytes 56..60 of the cipher keyed
\* by bytes 8..56 of that output, and the output has 64 + framed bytes
C2_TagUnderKeystream ==
    (st = "live" /\ caller = "new" /\ packs = 1) =>
        /\ \A i \in 56..59 :
              out[i + 1] = Xor(B(inner.tag[i - 55]), KeystreamByte(CipherOf(out), i))
        /\ Len(out) = HEADER_LEN + Len(framed)

\* the first pack after new, over the transport tagged 01 02 03 04
C2_Witness ==
    /\ st = "live"
    /\ caller = "new"
    /\ packs = 1
    /\ lastOp = "pack"
    /\ inner.tag = <<1, 2, 3, 4>>

\* C9: pack applies the transmit keystream to exactly the framed bytes and
\* prepends a pending header as it is; the cursor advances by the framed length
C9_KeystreamOverFramedOnly ==
    (st = "live" /\ packs >= 1) =>
        /\ out = head_before
                   \o ApplyKeystream([tx_cipher EXCEPT !.pos = tx_before], framed).buf
        /\ tx_cipher.pos = tx_before + Len(framed)
        /\ head_before # None => Slice(out, 0, HEADER_LEN) = gen_head
        /\ head = None

\* a pack found the header pending and emitted header ++ encrypted frame
C9_Witness ==
    /\ st = "live"
    /\ lastOp = "pack"
    /\ head_before # None
    /\ Len(out) = HEADER_LEN + Len(framed)
    /\ tx_cipher.pos = HEADER_LEN + Len(framed)

\* C10: the header is the accepted block on bytes 0..56 and, on bytes 56..64,
\* the transmit-cipher encryption at keystream offsets 56..64 of the block
\* carrying the tag; both ciphers are keyed from the block carrying the tag
C10_HeaderLayout ==
    st = "live" =>
        /\ Slice(gen_head, 0, 56) = Slice(gen_block, 0, 56)
        /\ Plain(Slice(gen_head, 0, 56))
        /\ \A i \in 56..63 :
              gen_head[i + 1] = Xor(TaggedBlock[i + 1],
                                    KeystreamByte(CipherOf(TaggedBlock), i))
        /\ tx_cipher.key = Vals(Slice(TaggedBlock, 8, 40))
        /\ tx_cipher.iv = Vals(Slice(TaggedBlock, 40, 56))
        /\ rx_cipher.key = Vals(Slice(Rev(TaggedBlock), 8, 40))
        /\ rx_cipher.iv = Vals(Slice(Rev(TaggedBlock), 40, 56))
        /\ tx_cipher.pos >= HEADER_LEN

\* reset returned a header over the transport tagged 01 02 03 04
C10_Witness ==
    /\ st = "live"
    /\ caller = "reset"
    /\ lastOp = "reset"
    /\ head = gen_head
    /\ inner.tag = <<1, 2, 3, 4>>

\* what the remote end reads: the whole stream under the keystream of the
\* cipher keyed by header bytes 8..56, then the bytes after the header
RemoteDeobfuscate(w) == Slice(ApplyKeystream(CipherOf(w), w).buf, HEADER_LEN, Len(w))

\* the payloads inner.unpack finds in a stream of whole frames, one after another
RECURSIVE UnpackAll(_)
UnpackAll(buf) ==
    IF buf = <<>> THEN <<>>
    ELSE LET u == InnerUnpack(buf)
         IN  IF u.kind # "ok" THEN <<u.kind>>
             ELSE <<Slice(buf, u.from, u.to)>> \o UnpackAll(Slice(buf, u.to, Len(buf)))

\* the frame bytes of the last pack output, without the header
OutBody == Slice(out, Len(head_before), Len(out))

\* the receive keystream applied to the last frame from cursor c reproduces it
RxReproduces(c) ==
    DeobfuscateOp([rx_cipher EXCEPT !.pos = c], OutBody).buf = framed

\* bytes 8..56 of the accepted block read the same in both directions
MirrorSymmetric(blk) == \A j \in 8..55 : blk[j + 1] = blk[64 - j]

Cursors == 0..(HEADER_LEN + MaxStream)

RoundTrip == UnpackAll(RemoteDeobfuscate(wire)) = sent

WireBody == Slice(wire, HEADER_LEN, Len(wire))

\* C11: the transmit cursor is 64 plus the framed bytes packed since the last
\* new or reset, each pack starts where the one before it ended, and framed
\* byte k of the stream is under keystream byte 64 + k of the header's cipher
\* and under no other
C11_TxCursorContiguous ==
    st = "live" =>
        /\ tx_cipher.pos = HEADER_LEN + FramedTotal(sent)
        /\ packs >= 1 =>
              /\ tx_before = tx_cipher.pos - Len(framed)
              /\ Len(wire) = tx_cipher.pos
              /\ \A k \in 0..(Len(WireBody) - 1) :
                    WireBody[k + 1].ks =
                        { KeystreamByte(CipherOf(TaggedBlock), HEADER_LEN + k) }
        /\ packs = 1 => tx_before = HEADER_LEN

\* a second pack went out, starting past keystream byte 64
C11_Witness ==
    /\ st = "live"
    /\ lastOp = "pack"
    /\ packs = 2
    /\ tx_before > HEADER_LEN
    /\ Len(WireBody) = FramedTotal(sent)

\* a deobfuscate call returned
DeobfuscateStep == st = "live" /\ st' = "live" /\ rcvd' # rcvd

\* a pack call returned
PackStep == st = "live" /\ st' = "live" /\ packs' # packs

\* an unpack call returned
UnpackStep == st = "live" /\ st' = "live" /\ lastOp' = "unpack"

\* C12: the receive cursor is the number of bytes deobfuscated since the last
\* new or reset and the bytes returned are those of one call over all the
\* bytes received; deobfuscate leaves the transmit cipher and the pending
\* header alone and pack leaves the receive cipher alone
C12_RxCursorIndependent ==
    /\ [](st = "live" =>
            /\ rx_cipher.pos = Len(rcvd)
            /\ deobf = ApplyKeystream([rx_cipher EXCEPT !.pos = 0], rcvd).buf)
    /\ [][DeobfuscateStep => (tx_cipher' = tx_cipher /\ head' = head)]_vars
    /\ [][PackStep => rx_cipher' = rx_cipher]_vars

\* three bytes were deobfuscated in more than one call, after a pack
C12_Witness ==
    /\ st = "live"
    /\ lastOp = "deobfuscate"
    /\ Len(rcvd) = 3
    /\ Len(rxbuf) < Len(rcvd)
    /\ packs >= 1

\* C13: unpack returns what inner.unpack returns for the same buffer, calls
\* nothing else of the inner transport, and leaves the pending header and
\* both ciphers as they were
C13_UnpackDelegates ==
    /\ []((st = "live" /\ lastOp = "unpack") =>
            /\ unp = InnerUnpack(unp_in)
            /\ inner_calls = <<"unpack">>)
    /\ [][UnpackStep => (/\ head' = head
                         /\ rx_cipher' = rx_cipher
                         /\ tx_cipher' = tx_cipher)]_vars

\* unpack found a frame while the receive cursor had moved
C13_Witness ==
    /\ st = "live"
    /\ lastOp = "unpack"
    /\ unp.kind = "ok"
    /\ rx_cipher.pos > 0

\* the header and ciphers that generate_keys derives from the accepted block
FreshState ==
    [head      |-> Slice(TaggedBlock, 0, 56) \o
                   [i \in 1..8 |-> Xor(TaggedBlock[56 + i],
                                       KeystreamByte(CipherOf(TaggedBlock), 55 + i))],
     rx_cipher |-> CipherOf(Rev(TaggedBlock)),
     tx_cipher |-> [CipherOf(TaggedBlock) EXCEPT !.pos = HEADER_LEN]]

\* C14: after reset the inner transport was reset once and then asked for its
\* tag, a header is pending, the receive cursor is 0 and the transmit cursor
\* 64, and header and ciphers are what new derives from the same block
C14_ResetRegenerates ==
    (st = "live" /\ lastOp \in {"new", "reset"}) =>
        /\ head = FreshState.head
        /\ rx_cipher = FreshState.rx_cipher
        /\ tx_cipher = FreshState.tx_cipher
        /\ packs = 0
        /\ rcvd = <<>>
        /\ wire = <<>>
        /\ inner_calls = IF lastOp = "reset" THEN <<"reset", "obfuscated_tag">>
                         ELSE <<"obfuscated_tag">>

\* reset returned after the header had gone out and both cursors had moved
C14_Witness ==
    /\ st = "live"
    /\ lastOp = "reset"
    /\ dirty_reset

\* generate_keys alone: the loop, its end, and reset entering it again
GenNext ==
    \/ GetRandom
    \/ FinishKeys
    \/ Reset

\* a draw that yields an acceptable block
AcceptableDraw == GetRandom /\ ~Rejected(init')

\* the random source is fair: while the loop runs, an acceptable block is
\* eventually drawn
FairGen == Init /\ [][GenNext]_vars /\ WF_vars(AcceptableDraw)

\* the loop is running
Looping == st = "gen" /\ Rejected(init)

\* C15: a header is emitted only after a draw; a turn of the loop replaces
\* all 64 bytes by a draw; once the block is acceptable the loop draws no
\* more and that block is the one used; with a fair random source the loop
\* ends
C15_RejectionLoopTerminates ==
    /\ [](st = "live" => (draws >= 1 /\ gen_block \in AcceptableBlocks))
    /\ []((st = "gen" /\ draws = 0) => (init = Zero64 /\ Looping))
    /\ [][Looping => (st' = "gen" /\ init' \in RandomBlocks /\ Len(init') = HEADER_LEN)]_vars
    /\ [][(st = "gen" /\ ~Looping) =>
            (st' # "gen" /\ draws' = draws /\ init' = init
             /\ (st' = "live" => gen_block' = init))]_vars
    /\ Looping ~> (st = "gen" /\ ~Looping)

\* the loop ended after a rejected draw was replaced by an acceptable one
C15_Witness ==
    /\ st = "live"
    /\ draws = MaxDraws
    /\ init \in AcceptableBlocks
    /\ gen_block = init

----------------------------------------------------------------------------
(* SaltStore: a set of salts [id, start, end], at most one per identifier *)

SaltIds == {1, 2}

Salts == { [id |-> i, start |-> a, end |-> b] :
             i \in SaltIds, a \in 0..MaxTime, b \in 0..MaxTime }
         \ { x \in [id : SaltIds, start : 0..MaxTime, end : 0..MaxTime] :
             x.start >= x.end }

\* what one server push may carry: nothing, one salt, or two windows of one
\* identifier
SaltSets == { {} } \cup { S \in { {a, b} : a \in Salts, b \in Salts } : \A x \in S, y \in S : x.id = y.id }

Empty == [id |-> 0, start |-> 0, end |-> 0]

\* the validity window of a is more recent than that of b
Later(a, b) == a.end > b.end \/ (a.end = b.end /\ a.start > b.start)

\* as IngestOp, with a pushed salt replacing the stored salt of its identifier
IngestOp_replace(store, new) ==
    LET ids == { x.id : x \in new }
    IN  { x \in store : x.id \notin ids }
          \cup { CHOOSE x \in { y \in new : y.id = i } :
                    \A z \in { y \in new : y.id = i } : z = x \/ Later(x, z) : i \in ids }

\* ingest: merge, one salt per identifier, the most recent window kept
IngestOp(store, new) ==
    LET all == store \cup new
    IN  { CHOOSE x \in { y \in all : y.id = i } :
             \A z \in { y \in all : y.id = i } : z = x \/ Later(x, z) :
          i \in { y.id : y \in all } }

\* expire_before: drop the salts whose window ended before now
ExpireBeforeOp(store, now) == { x \in store : ~(x.end < now) }

\* as PickCurrentOp, without looking at the clock
PickCurrentOp_ignoreClock(store, now) ==
    IF store = {} THEN Empty
    ELSE CHOOSE x \in store : \A z \in store : ~Later(z, x)

\* pick_current: the salt of the latest window among those not expired
PickCurrentOp(store, now) ==
    LET live == { x \in store : ~(x.end < now) }
    IN  IF live = {} THEN Empty
        ELSE CHOOSE x \in live : \A z \in live : ~Later(z, x)

\* the decorator plays no part in the salt layer
DecoratorIdle ==
    /\ st = "panicked"
    /\ caller = "new"
    /\ inner = [kind |-> "untagged", tag |-> <<>>]
    /\ init = <<>>
    /\ head = None
    /\ rx_cipher = NullCipher
    /\ tx_cipher = NullCipher
    /\ out = <<>>
    /\ rxbuf = <<>>
    /\ unp = [kind |-> "none", from |-> 0, to |-> 0]
    /\ ret = "running"
    /\ lastOp = "none"
    /\ gen_block = <<>>
    /\ gen_head = <<>>
    /\ draws = 0
    /\ packs = 0
    /\ tx_before = 0
    /\ head_before = None
    /\ framed = <<>>
    /\ payload = <<>>
    /\ wire = <<>>
    /\ sent = <<>>
    /\ rcvd = <<>>
    /\ deobf = <<>>
    /\ unp_in = <<>>
    /\ inner_calls = <<>>
    /\ dirty_reset = FALSE

SaltInit ==
    /\ DecoratorIdle
    /\ DispatchIdle
    /\ WriterIdle
    /\ SaltIdle

Ingest(new) ==
    /\ salts' = IngestOp(salts, new)
    /\ lastSalt' = [op |-> "ingest", before |-> salts, new |-> new]
    /\ UNCHANGED <<clock, expired_at, reqs>>
    /\ UNCHANGED <<ovars, dvars, wvars>>

\* expire_before(now), called with the local clock's reading
ExpireBefore ==
    /\ salts' = ExpireBeforeOp(salts, clock)
    /\ expired_at' = clock
    /\ lastSalt' = [op |-> "expire_before", now |-> clock]
    /\ UNCHANGED <<clock, reqs>>
    /\ UNCHANGED <<ovars, dvars, wvars>>

PickCurrent ==
    /\ lastSalt' = [op |-> "pick_current", result |-> PickCurrentOp(salts, clock)]
    /\ UNCHANGED <<salts, clock, expired_at, reqs>>
    /\ UNCHANGED <<ovars, dvars, wvars>>

\* time passes
Tick ==
    /\ clock <= MaxTime
    /\ clock' = clock + 1
    /\ lastSalt' = [op |-> "none"]
    /\ UNCHANGED <<salts, expired_at, reqs>>
    /\ UNCHANGED <<ovars, dvars, wvars>>

SaltNext ==
    \/ \E new \in SaltSets : Ingest(new)
    \/ ExpireBefore
    \/ PickCurrent
    \/ Tick

SaltSpec == SaltInit /\ [][SaltNext]_vars

\* C7: ingest is idempotent and commutative; the store keeps one salt per
\* identifier, the most recent window of those stored and pushed
C7_IngestIdempotentCommutative ==
    lastSalt.op = "ingest" =>
        /\ IngestOp(salts, lastSalt.new) = salts
        /\ \A other \in SaltSets :
              IngestOp(IngestOp(lastSalt.before, other), lastSalt.new)
                 = IngestOp(salts, other)
        /\ \A a \in salts, b \in salts : a.id = b.id => a = b
        /\ salts \subseteq lastSalt.before \cup lastSalt.new
        /\ \A x \in lastSalt.before \cup lastSalt.new :
              \E y \in salts : y.id = x.id /\ ~Later(x, y)

\* a push carried an older window for an identifier the store already held
C7_Witness ==
    /\ lastSalt.op = "ingest"
    /\ \E x \in lastSalt.new, y \in lastSalt.before : x.id = y.id /\ Later(y, x)
    /\ \E x \in lastSalt.new : x \in salts

\* C8: pick_current returns no salt whose window ended before the clock or
\* before the now of the last expire_before; it returns the latest window of
\* the salts not expired, and Empty exactly when there is none
C8_PickCurrentNeverExpired ==
    lastSalt.op = "pick_current" =>
        LET p    == lastSalt.result
            live == { x \in salts : x.end >= clock }
        IN  /\ p = Empty <=> live = {}
            /\ p # Empty =>
                  /\ p \in live
                  /\ p.end >= expired_at
                  /\ \A x \in live : ~Later(x, p)

\* pick_current answered while the store held a salt that had expired since
\* the last expire_before
C8_Witness ==
    /\ lastSalt.op = "pick_current"
    /\ lastSalt.result # Empty
    /\ expired_at > 0
    /\ \E x \in salts : x.end < clock

----------------------------------------------------------------------------
(* The client's calls, as the reproduce example observes them: a call made   *)
(* while a salt is valid is sent and returns once the server answers; a call *)
(* made while every salt is expired or invalidated never returns             *)

Reqs == 1..MaxReqs

Idle == [state |-> "idle", salt |-> 0]

\* the handshake supplied a first salt; no call has been made
SenderInit ==
    /\ DecoratorIdle
    /\ DispatchIdle
    /\ WriterIdle
    /\ salts = { [id |-> 1, start |-> 0, end |-> MaxTime] }
    /\ clock = 0
    /\ expired_at = 0
    /\ reqs = [r \in Reqs |-> Idle]
    /\ lastSalt = [op |-> "none"]

\* client.invoke(request): the request leaves with the current salt, or, with
\* no valid salt, the call waits for one
Invoke(r) ==
    /\ reqs[r].state = "idle"
    /\ LET cur == PickCurrentOp(salts, clock)
       IN  reqs' = [reqs EXCEPT ![r] =
                      IF cur # Empty
                      THEN [state |-> "sent", salt |-> cur.id]
                      ELSE [state |-> "awaiting_salt", salt |-> 0]]
    /\ UNCHANGED <<salts, clock, expired_at, lastSalt>>
    /\ UNCHANGED <<ovars, dvars, wvars>>

\* the server's answer arrives and the await returns
Respond(r) ==
    /\ reqs[r].state = "sent"
    /\ reqs' = [reqs EXCEPT ![r] = [state |-> "returned", salt |-> @.salt]]
    /\ UNCHANGED <<salts, clock, expired_at, lastSalt>>
    /\ UNCHANGED <<ovars, dvars, wvars>>

\* every salt is invalidated at once (try_reproduce_deadlock sets them to 0)
ZeroSalts ==
    /\ salts # {}
    /\ salts' = {}
    /\ lastSalt' = [op |-> "none"]
    /\ UNCHANGED <<clock, expired_at, reqs>>
    /\ UNCHANGED <<ovars, dvars, wvars>>

SenderNext ==
    \/ \E r \in Reqs : Invoke(r)
    \/ \E r \in Reqs : Respond(r)
    \/ ZeroSalts
    \/ \E x \in Salts : Ingest({x})
    \/ Tick

Sender == SenderInit /\ [][SenderNext]_vars

\* the runtime keeps polling the connection: an answer that can arrive does
FairSender == Sender /\ \A r \in Reqs : WF_vars(Respond(r))

\* C5: a call that waits for a salt completes once a valid salt is in the store
C5_EveryRequestCompletes ==
    \A r \in Reqs :
        (reqs[r].state = "awaiting_salt" /\ PickCurrentOp(salts, clock) # Empty)
            ~> (reqs[r].state = "returned")

\* C16: a call is never left waiting on salt availability: once an ingest has
\* put a valid salt in the store no call is still waiting for a salt
C16_NeverSuspendedOnSalt ==
    (lastSalt.op = "ingest" /\ PickCurrentOp(salts, clock) # Empty) =>
        \A r \in Reqs : reqs[r].state # "awaiting_salt"

----------------------------------------------------------------------------
(* RequestDispatcher: the in-flight table keyed by correlation id, the     *)
(* salts it attaches, and what each caller is told                         *)

\* the salts the server pushes to the dispatcher
PushedSalts == { [id |-> i, start |-> 0, end |-> MaxTime] : i \in SaltIds }

\* as Usable, forgetting which salts were declared invalid
Usable_ignoreInvalidated(set, inv) == set

\* the salts of a set that the server has not declared invalid
Usable(set, inv) == { x \in set : x.id \notin inv }

\* the salt attached to an outgoing request, or Empty
AttachOp(store, inv, now) == PickCurrentOp(Usable(store, inv), now)

\* the entry of a request given the salt picked for it
EntryFor(cur) ==
    IF cur # Empty THEN [state |-> "sent", salt |-> cur.id]
    ELSE [state |-> "pending", salt |-> 0]

\* as ResponseOp, resolving the first entry of the table whatever the id
ResponseOp_byArrival(tbl, i) ==
    IF \E j \in Cids : tbl[j] # Absent
    THEN [tbl EXCEPT ![CHOOSE j \in Cids : tbl[j] # Absent /\
                           \A k \in Cids : tbl[k] # Absent => j <= k] = Absent]
    ELSE tbl

\* a response with correlation id i: the entry with that id is destroyed,
\* and the table is left alone when there is none
ResponseOp(tbl, i) ==
    IF tbl[i] # Absent THEN [tbl EXCEPT ![i] = Absent] ELSE tbl

\* as CancelOp, leaving the entry in the table
CancelOp_keepEntry(tbl, i) == tbl

\* cancellation of request i removes its entry
CancelOp(tbl, i) == [tbl EXCEPT ![i] = Absent]

\* what the callers are told when the table changes from tbl to new by event
\* ev: the caller of a destroyed entry is notified, no other
Notify(out0, tbl, new, ev) ==
    [j \in Cids |-> IF tbl[j] # Absent /\ new[j] = Absent THEN ev ELSE out0[j]]

\* the store holds a salt or not; no call has been accepted
DispatchInit ==
    /\ DecoratorIdle
    /\ WriterIdle
    /\ salts \in { {}, { [id |-> 1, start |-> 0, end |-> MaxTime] } }
    /\ clock = 0
    /\ expired_at = 0
    /\ reqs = <<>>
    /\ lastSalt = [op |-> "none"]
    /\ table = [i \in Cids |-> Absent]
    /\ outcome = [i \in Cids |-> "idle"]
    /\ invalidated = {}
    /\ refresh = FALSE
    /\ dlast = [op |-> "none", id |-> 0]

\* a caller submits request i: sent with the current salt, or pending with a
\* salt refresh scheduled; the caller waits for its outcome
Submit(i) ==
    /\ outcome[i] = "idle"
    /\ LET cur == AttachOp(salts, invalidated, clock)
       IN  /\ table' = [table EXCEPT ![i] = EntryFor(cur)]
           /\ refresh' = (refresh \/ cur = Empty)
    /\ outcome' = [outcome EXCEPT ![i] = "waiting"]
    /\ dlast' = [op |-> "submit", id |-> i]
    /\ UNCHANGED <<salts, clock, expired_at, reqs, lastSalt, invalidated>>
    /\ UNCHANGED <<ovars, wvars>>

\* a response with correlation id i arrives, whatever was sent before it
Response(i) ==
    /\ table' = ResponseOp(table, i)
    /\ outcome' = Notify(outcome, table, table', "resolved")
    /\ dlast' = [op |-> "response", id |-> i]
    /\ UNCHANGED <<salts, clock, expired_at, reqs, lastSalt, invalidated, refresh>>
    /\ UNCHANGED <<ovars, wvars>>

\* request i times out: its entry is abandoned and its caller told
Timeout(i) ==
    /\ table[i] # Absent
    /\ table' = [table EXCEPT ![i] = Absent]
    /\ outcome' = Notify(outcome, table, table', "timeout")
    /\ dlast' = [op |-> "timeout", id |-> i]
    /\ UNCHANGED <<salts, clock, expired_at, reqs, lastSalt, invalidated, refresh>>
    /\ UNCHANGED <<ovars, wvars>>

\* the caller of request i cancels it
Cancel(i) ==
    /\ outcome[i] # "idle"
    /\ table' = CancelOp(table, i)
    /\ outcome' = Notify(outcome, table, table', "cancelled")
    /\ dlast' = [op |-> "cancel", id |-> i]
    /\ UNCHANGED <<salts, clock, expired_at, reqs, lastSalt, invalidated, refresh>>
    /\ UNCHANGED <<ovars, wvars>>

\* the server answers request i with "salt invalid": the salt is invalidated
\* and the request retried at once with another salt, or pending again
SaltInvalid(i) ==
    /\ table[i].state = "sent"
    /\ invalidated' = invalidated \cup {table[i].salt}
    /\ salts' = Usable(salts, invalidated')
    /\ LET cur == AttachOp(salts', invalidated', clock)
       IN  /\ table' = [table EXCEPT ![i] = EntryFor(cur)]
           /\ refresh' = (refresh \/ cur = Empty)
    /\ dlast' = [op |-> "salt_invalid", id |-> i]
    /\ UNCHANGED <<clock, expired_at, reqs, lastSalt, outcome>>
    /\ UNCHANGED <<ovars, wvars>>

\* the server pushes salts: they are merged into the store, then every
\* pending request is evaluated again
DispatchIngest(new) ==
    /\ salts' = IngestOp(salts, Usable(new, invalidated))
    /\ LET cur == AttachOp(salts', invalidated, clock)
       IN  /\ table' = [j \in Cids |->
                          IF table[j].state = "pending" THEN EntryFor(cur)
                          ELSE table[j]]
           /\ refresh' = (refresh /\ cur = Empty)
    /\ dlast' = [op |-> "ingest", id |-> 0]
    /\ UNCHANGED <<clock, expired_at, reqs, lastSalt, outcome, invalidated>>
    /\ UNCHANGED <<ovars, wvars>>

DispatchNext ==
    \/ \E i \in Cids : Submit(i)
    \/ \E i \in Cids : Response(i)
    \/ \E i \in Cids : Timeout(i)
    \/ \E i \in Cids : Cancel(i)
    \/ \E i \in Cids : SaltInvalid(i)
    \/ \E new \in SUBSET PushedSalts : DispatchIngest(new)

Dispatch == DispatchInit /\ [][DispatchNext]_vars

\* the dispatcher handled a response with correlation id i
ResponseStep(i) == dlast' = [op |-> "response", id |-> i]

\* the dispatcher handled the cancellation of request i
CancelStep(i) == dlast' = [op |-> "cancel", id |-> i]

\* the dispatcher handled a "salt invalid" answer to request i
SaltInvalidStep(i) == dlast' = [op |-> "salt_invalid", id |-> i]

\* every entry and outcome but that of request i is as it was
OthersUntouched(i) ==
    \A j \in Cids \ {i} : table'[j] = table[j] /\ outcome'[j] = outcome[j]

\* C17: a response resolves the entry with its correlation id and no other,
\* whatever is in flight besides; with no entry for its id it is dropped: the
\* table, the callers and the salts stay as they were and the dispatcher goes on
C17_ResponsesMatchedById ==
    [][\A i \in Cids : ResponseStep(i) =>
          /\ OthersUntouched(i)
          /\ table[i] # Absent => (table'[i] = Absent /\ outcome'[i] = "resolved")
          /\ table[i] = Absent => (table' = table /\ outcome' = outcome)
          /\ UNCHANGED <<salts, invalidated, refresh>>]_vars

\* a response for request 2 arrived after its timeout and was dropped while
\* request 1 was in flight
C17_Witness ==
    /\ dlast = [op |-> "response", id |-> 2]
    /\ outcome[2] = "timeout"
    /\ table[1].state = "sent"
    /\ table[2] = Absent

\* C18: cancelling a request in the table removes its entry and a later
\* response for its id changes nothing; cancelling after the response arrived
\* changes nothing; no other request's entry or outcome is altered
C18_CancelRemovesEntry ==
    /\ [][\A i \in Cids : CancelStep(i) =>
            /\ OthersUntouched(i)
            /\ table'[i] = Absent
            /\ table[i] # Absent => outcome'[i] = "cancelled"
            /\ table[i] = Absent => (table' = table /\ outcome' = outcome)]_vars
    /\ [][\A i \in Cids : (outcome[i] = "cancelled" /\ ResponseStep(i)) =>
            (table' = table /\ outcome' = outcome)]_vars
    /\ [](\A i \in Cids : outcome[i] = "cancelled" => table[i] = Absent)

\* a response for the cancelled request 1 arrived while request 2 was in flight
C18_Witness ==
    /\ dlast = [op |-> "response", id |-> 1]
    /\ outcome[1] = "cancelled"
    /\ table[2] # Absent
    /\ outcome[2] = "waiting"

\* the valid salts of the store other than salt s and the invalidated ones
OtherSalts(s) ==
    { x \in salts : x.id # s /\ x.id \notin invalidated /\ x.end >= clock }

----------------------------------------------------------------------------
(* Many callers, one decorator: pack takes the decorator exclusively       *)
(* (&mut self), and the lock is held for one pack and its write            *)

\* caller c takes the writer lock
Acquire(c) ==
    /\ st = "live"
    /\ wpc[c] = "idle"
    /\ lock = 0
    /\ lock' = c
    /\ wpc' = [wpc EXCEPT ![c] = "locked"]
    /\ UNCHANGED <<wbuf, stream>>
    /\ UNCHANGED <<ovars, svars, dvars>>

\* as WriterPack, giving the lock back as soon as pack returns
WriterPack_releaseEarly(c, p) ==
    /\ wpc[c] = "locked"
    /\ PackCall(p)
    /\ wbuf' = [wbuf EXCEPT ![c] = out']
    /\ wpc' = [wpc EXCEPT ![c] = "packed"]
    /\ lock' = 0
    /\ UNCHANGED stream
    /\ UNCHANGED <<svars, dvars>>

\* caller c, holding the lock, packs payload p into its buffer
WriterPack(c, p) ==
    /\ wpc[c] = "locked"
    /\ PackCall(p)
    /\ wbuf' = [wbuf EXCEPT ![c] = out']
    /\ wpc' = [wpc EXCEPT ![c] = "packed"]
    /\ UNCHANGED <<lock, stream>>
    /\ UNCHANGED <<svars, dvars>>

\* caller c writes its buffer to the socket and gives the lock back
WriterWrite(c) ==
    /\ wpc[c] = "packed"
    /\ stream' = stream \o wbuf[c]
    /\ wbuf' = [wbuf EXCEPT ![c] = <<>>]
    /\ wpc' = [wpc EXCEPT ![c] = "idle"]
    /\ lock' = IF lock = c THEN 0 ELSE lock
    /\ UNCHANGED <<ovars, svars, dvars>>

WriterNext ==
    \/ GetRandom
    \/ FinishKeys
    \/ \E c \in Callers : Acquire(c)
    \/ \E c \in Callers, p \in Payloads : WriterPack(c, p)
    \/ \E c \in Callers : WriterWrite(c)

Writer == Init /\ [][WriterNext]_vars

\* the frames written to the socket, header left out
StreamBody == Slice(stream, HEADER_LEN, Len(stream))

\* C20: at most one caller is between the start of its pack and the end of
\* its write; when a pack starts every earlier pack output is on the socket;
\* the socket holds the pack outputs in the order the transmit keystream was
\* consumed, byte k after the header under keystream byte 64 + k
C20_SingleWriterOrder ==
    /\ [](Cardinality({ c \in Callers : wpc[c] # "idle" }) <= 1)
    /\ [](stream = SubSeq(wire, 1, Len(stream)))
    /\ [](\A k \in 0..(Len(StreamBody) - 1) :
            StreamBody[k + 1].ks =
                { KeystreamByte(CipherOf(TaggedBlock), HEADER_LEN + k) })
    /\ [][PackStep => stream = wire]_vars

\* caller 2 has packed the second frame after the first was written
C20_Witness ==
    /\ packs = 2
    /\ wpc[1] = "idle"
    /\ wpc[2] = "packed"
    /\ Len(stream) > HEADER_LEN
    /\ Len(wire) > Len(stream)

====
